---- MODULE Spec2Model ----
(***************************************************************************)
(* Model of server-status (src/src/main.rs): one authenticated endpoint,   *)
(* GET /status, whose handler runs a sequence of failure-tolerant probes   *)
(* (public IP, ping, speed test, interfaces, sensors) and merges them into *)
(* one JSON response.                                                      *)
(*                                                                         *)
(* Text is modelled as TLA+ strings and every string operation the code    *)
(* uses (starts_with, contains, split, trim_matches, parse, ...) is an     *)
(* operator computed character by character.  The text of a tool's stdout  *)
(* is the sequence of lines that str::lines() yields.  Option<T> is the    *)
(* empty tuple (None) or a 1-tuple (Some).  A parsed float is the exact    *)
(* decimal it denotes, [m |-> mantissa, e |-> fractional digits].          *)
(* TLC stores the characters of a string in one byte each, so the degree   *)
(* sign U+00B0 of the sensors output is written as the character Deg.      *)
(***************************************************************************)
EXTENDS Integers, Sequences, FiniteSets, TLC

VARIABLES
    token,      \* the configured bearer token (web::Data<String>)
    pc,         \* per request: where the handler is
    hdr,        \* per request: its Authorization header
    env,        \* per request: what its own external calls returned
    loc,        \* per request: the handler's local variables
    resp,       \* per request: the HTTP response, once sent
    probe,      \* probe under test (probe specification)
    tool,       \* what the external tool of the probe under test returns
    result      \* what the probe under test returned

vars == <<token, pc, hdr, env, loc, resp, probe, tool, result>>

(***************************************************************************)
(* Bounds.                                                                 *)
(***************************************************************************)
\* Longest tool output, in lines, that the probe specification feeds a parser.
MaxLines == 3
\* Number of requests in flight in the handler specification.
NumReq == 2

(***************************************************************************)
(* Option<T>.                                                              *)
(***************************************************************************)
None == <<>>
Some(v) == <<v>>
is_some(o) == o # <<>>
unwrap(o) == o[1]

\* The same function with its values computed once and kept as a table.
Tabulated(f) == f @@ <<>>

(***************************************************************************)
(* str operations.                                                         *)
(***************************************************************************)
starts_with(s, p) == Len(s) >= Len(p) /\ SubSeq(s, 1, Len(p)) = p

ends_with(s, p) == Len(s) >= Len(p) /\ SubSeq(s, Len(s) - Len(p) + 1, Len(s)) = p

contains(s, p) == \E i \in 1..(Len(s) - Len(p) + 1) : SubSeq(s, i, i + Len(p) - 1) = p

\* str::find(pat): the index (from 1) of the first occurrence of p in s, 0
\* when there is none.
find(s, p) ==
    IF contains(s, p)
    THEN CHOOSE i \in 1..(Len(s) - Len(p) + 1) :
            /\ SubSeq(s, i, i + Len(p) - 1) = p
            /\ \A j \in 1..(i - 1) : SubSeq(s, j, j + Len(p) - 1) # p
    ELSE 0

is_whitespace(c) == c \in {" ", "\t", "\r", "\n", "\f"}

lower_char(c) ==
    CASE c = "A" -> "a" [] c = "B" -> "b" [] c = "C" -> "c" [] c = "D" -> "d"
      [] c = "E" -> "e" [] c = "F" -> "f" [] c = "G" -> "g" [] c = "H" -> "h"
      [] c = "I" -> "i" [] c = "J" -> "j" [] c = "K" -> "k" [] c = "L" -> "l"
      [] c = "M" -> "m" [] c = "N" -> "n" [] c = "O" -> "o" [] c = "P" -> "p"
      [] c = "Q" -> "q" [] c = "R" -> "r" [] c = "S" -> "s" [] c = "T" -> "t"
      [] c = "U" -> "u" [] c = "V" -> "v" [] c = "W" -> "w" [] c = "X" -> "x"
      [] c = "Y" -> "y" [] c = "Z" -> "z" [] OTHER -> c

RECURSIVE to_lowercase(_)
to_lowercase(s) ==
    IF s = "" THEN "" ELSE lower_char(Head(s)) \o to_lowercase(Tail(s))

RECURSIVE trim_start(_)
trim_start(s) ==
    IF s # "" /\ is_whitespace(Head(s)) THEN trim_start(Tail(s)) ELSE s

RECURSIVE trim_end(_)
trim_end(s) ==
    IF s # "" /\ is_whitespace(SubSeq(s, Len(s), Len(s)))
    THEN trim_end(SubSeq(s, 1, Len(s) - 1))
    ELSE s

trim(s) == trim_end(trim_start(s))

\* str::trim_matches(|c| c is one of pats): strips matching characters from
\* both ends.
RECURSIVE trim_matches(_, _)
trim_matches(s, pats) ==
    IF \E p \in pats : starts_with(s, p)
    THEN LET p == CHOOSE q \in pats : starts_with(s, q)
         IN  trim_matches(SubSeq(s, Len(p) + 1, Len(s)), pats)
    ELSE IF \E p \in pats : ends_with(s, p)
    THEN LET p == CHOOSE q \in pats : ends_with(s, q)
         IN  trim_matches(SubSeq(s, 1, Len(s) - Len(p)), pats)
    ELSE s

\* Length of the longest prefix of s without whitespace.
RECURSIVE word_len(_)
word_len(s) ==
    IF s = "" \/ is_whitespace(Head(s)) THEN 0 ELSE 1 + word_len(Tail(s))

\* str::split_whitespace(): the non-empty maximal runs of non-whitespace.
RECURSIVE split_whitespace(_)
split_whitespace(s) ==
    LET t == trim_start(s)
        n == word_len(t)
    IN  IF t = "" THEN <<>>
        ELSE <<SubSeq(t, 1, n)>> \o split_whitespace(SubSeq(t, n + 1, Len(t)))

\* Iterator::nth(n), counting from 0.
nth(seq, n) == IF n + 1 <= Len(seq) THEN Some(seq[n + 1]) ELSE None

\* str::split(pat): the pieces between the occurrences of pat, left to right.
RECURSIVE split(_, _)
split(s, pat) ==
    LET i == find(s, pat)
    IN  IF i = 0 THEN <<s>>
        ELSE <<SubSeq(s, 1, i - 1)>> \o split(SubSeq(s, i + Len(pat), Len(s)), pat)

(***************************************************************************)
(* str::parse::<f64>() / parse::<f32>() on decimal literals:               *)
(* [+-] digits [. digits], at least one digit.  Anything else is Err.      *)
(***************************************************************************)
is_digit(c) == c \in {"0", "1", "2", "3", "4", "5", "6", "7", "8", "9"}

digit_val(c) ==
    CASE c = "0" -> 0 [] c = "1" -> 1 [] c = "2" -> 2 [] c = "3" -> 3
      [] c = "4" -> 4 [] c = "5" -> 5 [] c = "6" -> 6 [] c = "7" -> 7
      [] c = "8" -> 8 [] c = "9" -> 9

all_digits(s) == \A i \in 1..Len(s) : is_digit(SubSeq(s, i, i))

RECURSIVE to_nat(_)
to_nat(s) ==
    IF s = "" THEN 0
    ELSE 10 * to_nat(SubSeq(s, 1, Len(s) - 1)) + digit_val(SubSeq(s, Len(s), Len(s)))

\* The decimal m / 10^e without trailing fractional zeros.
RECURSIVE normal(_, _)
normal(m, e) ==
    IF e > 0 /\ m % 10 = 0 THEN normal(m \div 10, e - 1) ELSE [m |-> m, e |-> e]

parse_float(s) ==
    LET neg  == starts_with(s, "-")
        body == IF starts_with(s, "-") \/ starts_with(s, "+")
                THEN SubSeq(s, 2, Len(s)) ELSE s
        dot  == find(body, ".")
        ip   == IF dot = 0 THEN body ELSE SubSeq(body, 1, dot - 1)
        fp   == IF dot = 0 THEN "" ELSE SubSeq(body, dot + 1, Len(body))
        mag  == normal(to_nat(ip \o fp), Len(fp))
    IN  IF all_digits(ip) /\ all_digits(fp) /\ Len(ip) + Len(fp) >= 1
        THEN Some([m |-> IF neg THEN 0 - mag.m ELSE mag.m, e |-> mag.e])
        ELSE None

(***************************************************************************)
(* External calls.  Command::output() either fails to spawn the tool       *)
(* (missing binary), or returns its exit code and stdout, or never returns *)
(* (the child never terminates; output() waits for it without a timeout).  *)
(***************************************************************************)
SpawnErr == [spawn |-> "err", code |-> 0, stdout |-> <<>>]
Ran(code, lines) == [spawn |-> "ok", code |-> code, stdout |-> lines]
Hang == [spawn |-> "hang", code |-> 0, stdout |-> <<>>]

\* Command::output().ok(): None when the tool could not be spawned.
output_ok(o) == IF o.spawn = "ok" THEN Some(o) ELSE None

\* First element of lines satisfying "contains pat" (Iterator::find).
RECURSIVE find_line(_, _, _)
find_line(lines, i, pat) ==
    IF i > Len(lines) THEN None
    ELSE IF contains(lines[i], pat) THEN Some(lines[i])
    ELSE find_line(lines, i + 1, pat)

(***************************************************************************)
(* get_ping_ms, main.rs 56-70.                                             *)
(***************************************************************************)
\* The closure of and_then: line.split("time=").nth(1)?.split(' ').next()?.parse().ok()
ping_parse_line(line) ==
    LET after == nth(split(line, "time="), 1)
    IN  IF after = None THEN None
        ELSE LET first == nth(split(unwrap(after), " "), 0)
             IN  IF first = None THEN None ELSE parse_float(unwrap(first))

\* A variant that reads the last line with "time=" instead of the first.
get_ping_ms_last_line(o) ==
    IF output_ok(o) = None THEN None
    ELSE LET hits == { j \in 1..Len(o.stdout) : contains(o.stdout[j], "time=") }
         IN  IF hits = {} THEN None
             ELSE ping_parse_line(o.stdout[CHOOSE j \in hits : \A k \in hits : k <= j])

get_ping_ms(o) ==
    IF output_ok(o) = None THEN None
    ELSE LET line == find_line(o.stdout, 1, "time=")
         IN  IF line = None THEN None ELSE ping_parse_line(unwrap(line))

(***************************************************************************)
(* get_speedtest, main.rs 72-94.  The `?` on a missing second token        *)
(* returns None from the whole function at once.                           *)
(***************************************************************************)
\* A variant that reports whichever of the two values it has.
speedtest_match_either(download, upload) ==
    IF is_some(download) \/ is_some(upload)
    THEN Some(<<IF is_some(download) THEN unwrap(download) ELSE None,
                IF is_some(upload) THEN unwrap(upload) ELSE None>>)
    ELSE None

speedtest_match(download, upload) ==
    IF is_some(download) /\ is_some(upload)
    THEN Some(<<unwrap(download), unwrap(upload)>>)
    ELSE None

RECURSIVE speedtest_loop(_, _, _, _)
speedtest_loop(lines, i, download, upload) ==
    IF i > Len(lines) THEN speedtest_match(download, upload)
    ELSE LET line == lines[i]
             tok  == nth(split_whitespace(line), 1)
         IN  IF starts_with(line, "Download:")
             THEN IF tok = None THEN None
                  ELSE speedtest_loop(lines, i + 1, parse_float(unwrap(tok)), upload)
             ELSE IF starts_with(line, "Upload:")
             THEN IF tok = None THEN None
                  ELSE speedtest_loop(lines, i + 1, download, parse_float(unwrap(tok)))
             ELSE speedtest_loop(lines, i + 1, download, upload)

get_speedtest(o) ==
    IF output_ok(o) = None THEN None
    ELSE speedtest_loop(o.stdout, 1, None, None)

(***************************************************************************)
(* parse_temp_line, main.rs 140-148: the first word containing the degree  *)
(* marker decides; no later word is looked at.                            *)
(***************************************************************************)
\* The degree sign of "\u00B0C" (main.rs 142-143).
Deg == "^"

RECURSIVE parse_temp_words(_, _)
parse_temp_words(words, i) ==
    IF i > Len(words) THEN None
    ELSE IF contains(words[i], Deg \o "C")
    THEN parse_float(trim_matches(words[i], {"+", Deg, "C"}))
    ELSE parse_temp_words(words, i + 1)

parse_temp_line(line) == parse_temp_words(split_whitespace(line), 1)

(***************************************************************************)
(* get_all_temps, main.rs 106-138.                                         *)
(***************************************************************************)
\* Line 116: the line starts a new chip.
is_chip_header(line) == ~starts_with(line, " ") /\ line # "" /\ ~contains(line, ":")

is_motherboard_chip(lower) == contains(lower, "asus") \/ contains(lower, "acpitz")
is_cpu_chip(lower) == contains(lower, "k10temp")
is_gpu_chip(lower) == contains(lower, "amdgpu")
has_label(line, label) == contains(to_lowercase(trim(line)), label)

\* A variant in which a field keeps the first reading it was given.
temps_apply_first_wins(st, line) ==
    IF st.current_chip = None THEN st
    ELSE LET lower == to_lowercase(unwrap(st.current_chip))
         IN  IF is_motherboard_chip(lower) /\ has_label(line, "temp1:")
             THEN IF st.motherboard_temp # None THEN st
                  ELSE [st EXCEPT !.motherboard_temp = parse_temp_line(line)]
             ELSE IF is_cpu_chip(lower) /\ has_label(line, "temp1:")
             THEN IF st.cpu_temp # None THEN st
                  ELSE [st EXCEPT !.cpu_temp = parse_temp_line(line)]
             ELSE IF is_gpu_chip(lower) /\ has_label(line, "edge:")
             THEN IF st.gpu_temp # None THEN st
                  ELSE [st EXCEPT !.gpu_temp = parse_temp_line(line)]
             ELSE st

\* Lines 120-130: one line under the current chip; st holds the loop's variables.
temps_apply(st, line) ==
    IF st.current_chip = None THEN st
    ELSE LET lower == to_lowercase(unwrap(st.current_chip))
         IN  IF is_motherboard_chip(lower) /\ has_label(line, "temp1:")
             THEN [st EXCEPT !.motherboard_temp = parse_temp_line(line)]
             ELSE IF is_cpu_chip(lower) /\ has_label(line, "temp1:")
             THEN [st EXCEPT !.cpu_temp = parse_temp_line(line)]
             ELSE IF is_gpu_chip(lower) /\ has_label(line, "edge:")
             THEN [st EXCEPT !.gpu_temp = parse_temp_line(line)]
             ELSE st

\* A variant in which the first chip header stays current to the end.
temps_chip_keep_first(st, line) ==
    IF is_chip_header(line) /\ st.current_chip = None
    THEN [st EXCEPT !.current_chip = Some(line)]
    ELSE st

\* Lines 116-118: the chip the line is read under.
temps_chip(st, line) ==
    IF is_chip_header(line) THEN [st EXCEPT !.current_chip = Some(line)] ELSE st

RECURSIVE temps_loop(_, _, _)
temps_loop(lines, i, st) ==
    IF i > Len(lines) THEN st
    ELSE temps_loop(lines, i + 1, temps_apply(temps_chip(st, lines[i]), lines[i]))

temps_stdout(o) == IF output_ok(o) = None THEN <<>> ELSE o.stdout

get_all_temps(o) ==
    LET st == temps_loop(temps_stdout(o), 1,
                         [current_chip |-> None, motherboard_temp |-> None,
                          cpu_temp |-> None, gpu_temp |-> None])
    IN  [motherboard_temp |-> st.motherboard_temp,
         cpu_temp |-> st.cpu_temp,
         gpu_temp |-> st.gpu_temp]

(***************************************************************************)
(* The public-IP lookup, main.rs 187-191.  ureq's call() is Err on a       *)
(* transport error, a timeout or an error status; into_string() is Err     *)
(* when the body cannot be read.                                           *)
(***************************************************************************)
IpErr(kind) == [call |-> kind, body |-> None]
IpOk(body) == [call |-> "ok", body |-> body]

\* A variant that answers an empty string when the lookup fails.
public_ip_default(o) ==
    LET res  == IF o.call = "ok" THEN Some(o) ELSE None
        text == IF res = None THEN None ELSE unwrap(res).body
    IN  IF text = None THEN "" ELSE unwrap(text)

public_ip(o) ==
    LET res  == IF o.call = "ok" THEN Some(o) ELSE None
        text == IF res = None THEN None ELSE unwrap(res).body
    IN  IF text = None THEN "Unavailable" ELSE unwrap(text)

(***************************************************************************)
(* What the tools can print.  Every output of at most MaxLines lines over  *)
(* these lines is fed to the parsers, with either exit code.               *)
(***************************************************************************)
PingLines ==
    { "PING 8.8.8.8 (8.8.8.8) 56(84) bytes of data.",
      "64 bytes from 8.8.8.8: icmp_seq=1 ttl=55 time=13.4 ms",
      "64 bytes from 8.8.8.8: icmp_seq=2 ttl=55 time=20.25 ms",
      "64 bytes from 8.8.8.8: icmp_seq=1 ttl=55 time=<1 ms",
      "64 bytes from 8.8.8.8: icmp_seq=1 ttl=55 time= 9.1 ms",
      "1 packets transmitted, 1 received, 0% packet loss, time 0ms",
      "icmp_seq=3 time=7",
      "icmp_seq=4 time=8.5time=9 ms",
      "" }

SpeedLines ==
    { "Ping: 12.3 ms",
      "Download: 93.12 Mbit/s",
      "Download: 10 Mbit/s",
      "Download: fast Mbit/s",
      "Download:",
      " Download: 55.5 Mbit/s",
      "Upload: 20.5 Mbit/s",
      "Upload: n/a",
      "Upload:" }

SensorLines ==
    { "ACPITZ-acpi-0",
      "k10temp-pci-00c3",
      "amdgpu-pci-0800",
      "asus-k10temp-amdgpu",
      "nvme-pci-0100",
      " k10temp",
      "\tamdgpu",
      "",
      "temp1:       +45.0^C",
      "Temp1: +50.5^C (crit = +90.0^C)",
      "temp1: ERR^C (crit = +90.0^C)",
      "temp1: N/A",
      "edge:  +38.0^C" }

ExitCodes == {0, 1}

Outputs(lines) == UNION { [1..n -> lines] : n \in 0..MaxLines }

CommandOutcomes(lines) ==
    {SpawnErr} \cup { Ran(c, out) : c \in ExitCodes, out \in Outputs(lines) }

IpOutcomes ==
    { IpErr("transport"), IpErr("status"), IpErr("timeout"),
      IpOk(None), IpOk(Some("203.0.113.7")), IpOk(Some("")) }

(***************************************************************************)
(* The handler's state before any request.                                 *)
(***************************************************************************)
Requests == 1..NumReq

\* main.rs 241: the default token, or the value of BEARER_TOKEN.
Tokens == {"default-token", "s3cret"}

NoHeader == [kind |-> "none", text |-> ""]
NoResponse == [status |-> 0, body |-> ""]
NotRun == [spawn |-> "not run", code |-> 0, stdout |-> <<>>]
IpNotRun == [call |-> "not run", body |-> None]
NoEnv == [ip |-> IpNotRun, ping |-> NotRun, speed |-> NotRun, ifaces |-> None,
          sensors |-> NotRun]
NoLocals == [public_ip |-> None, ping_ms |-> None, speed |-> None,
             interfaces |-> None, sys |-> None]

HandlerIdle ==
    /\ pc = [r \in Requests |-> "idle"]
    /\ hdr = [r \in Requests |-> NoHeader]
    /\ env = [r \in Requests |-> NoEnv]
    /\ loc = [r \in Requests |-> NoLocals]
    /\ resp = [r \in Requests |-> NoResponse]

handler_vars == <<token, pc, hdr, env, loc, resp>>
probe_vars == <<probe, tool, result>>

(***************************************************************************)
(* The probe specification: each probe function applied to every outcome   *)
(* of its external call.                                                   *)
(***************************************************************************)
InitProbes ==
    /\ token = "default-token"
    /\ HandlerIdle
    /\ result = None
    /\ \/ probe = "ping" /\ tool \in CommandOutcomes(PingLines)
       \/ probe = "speed" /\ tool \in CommandOutcomes(SpeedLines)
       \/ probe = "sensors" /\ tool \in CommandOutcomes(SensorLines)
       \/ probe = "ip" /\ tool \in IpOutcomes

RunPing ==
    /\ probe = "ping" /\ result = None
    /\ result' = Some(get_ping_ms(tool))
    /\ UNCHANGED <<handler_vars, probe, tool>>

RunSpeedtest ==
    /\ probe = "speed" /\ result = None
    /\ result' = Some(get_speedtest(tool))
    /\ UNCHANGED <<handler_vars, probe, tool>>

RunSensors ==
    /\ probe = "sensors" /\ result = None
    /\ result' = Some(get_all_temps(tool))
    /\ UNCHANGED <<handler_vars, probe, tool>>

RunPublicIp ==
    /\ probe = "ip" /\ result = None
    /\ result' = Some(public_ip(tool))
    /\ UNCHANGED <<handler_vars, probe, tool>>

NextProbes == RunPing \/ RunSpeedtest \/ RunSensors \/ RunPublicIp

SpecProbes == InitProbes /\ [][NextProbes]_vars

(***************************************************************************)
(* The handler, main.rs 162-234.  actix-web runs one worker per core, so   *)
(* handlers of different requests interleave at every external call.       *)
(***************************************************************************)
Header(text) == [kind |-> "text", text |-> text]
\* A header value that HeaderValue::to_str() rejects (not visible ASCII).
BytesHeader == [kind |-> "bytes", text |-> ""]

Headers ==
    { NoHeader, BytesHeader,
      Header("Bearer default-token"), Header("Bearer s3cret"),
      Header("bearer s3cret"), Header("Bearer s3cret ") }

\* A variant that accepts any header beginning with "Bearer <token>".
authorized_prefix(h, tok) ==
    IF h.kind = "none" THEN FALSE
    ELSE IF h.kind # "text" THEN FALSE
    ELSE starts_with(h.text, "Bearer " \o tok)

\* Lines 164-166: header present, valid text, equal to "Bearer <token>".
authorized(h, tok) ==
    IF h.kind = "none" THEN FALSE
    ELSE IF h.kind # "text" THEN FALSE
    ELSE h.text = "Bearer " \o tok

\* What sysinfo reports, lines 169-185 and 208-210.
HostSnapshot ==
    [uptime_secs |-> 3725, cpus |-> <<"AMD Ryzen 5 3600">>,
     cpu_usage |-> 12, total_memory |-> 16, used_memory |-> 4,
     host_name |-> Some("box"), name |-> None]

\* Lines 172-185: the values derived from the snapshot.
sys_locals(h) ==
    [uptime |-> <<h.uptime_secs \div 3600, (h.uptime_secs % 3600) \div 60,
                  h.uptime_secs % 60>>,
     cpu_name |-> IF h.cpus = <<>> THEN "" ELSE h.cpus[1],
     cpu_percentage |-> h.cpu_usage,
     total_memory |-> h.total_memory,
     used_memory |-> h.used_memory,
     memory_percentage |-> IF h.total_memory = 0 THEN "NaN"
                           ELSE (h.used_memory * 100) \div h.total_memory,
     server_name |-> h.host_name,
     server_os |-> h.name]

\* Lines 195-198: the pair becomes the two response fields.
speed_fields(sp) ==
    IF is_some(sp)
    THEN [download |-> Some(unwrap(sp)[1]), upload |-> Some(unwrap(sp)[2])]
    ELSE [download |-> None, upload |-> None]

\* get_network_interfaces, lines 96-104: an enumeration error is an empty list.
get_network_interfaces(o) == IF o = None THEN <<>> ELSE unwrap(o)

HostInterfaces ==
    Some(<<[name |-> "lo", ip |-> "127.0.0.1"], [name |-> "eth0", ip |-> "10.0.0.5"]>>)

\* A variant that answers 500 when the ping probe gave nothing.
StatusResponse_strict(l, temps) ==
    [status |-> IF unwrap(l.ping_ms) = None THEN 500 ELSE 200,
     body |->
       [server_status |-> "online",
        server_uptime |-> unwrap(l.sys).uptime,
        server_data |-> [server_name |-> unwrap(l.sys).server_name,
                         server_cpu |-> unwrap(l.sys).cpu_name,
                         server_os |-> unwrap(l.sys).server_os],
        data |-> [cpu_percentage |-> unwrap(l.sys).cpu_percentage,
                  memory |-> unwrap(l.sys).used_memory,
                  total_memory |-> unwrap(l.sys).total_memory,
                  memory_percentage |-> unwrap(l.sys).memory_percentage,
                  temps |-> temps],
        network |-> [public_ip |-> unwrap(l.public_ip),
                     ping_ms |-> unwrap(l.ping_ms),
                     speed_download_mbps |-> unwrap(l.speed).download,
                     speed_upload_mbps |-> unwrap(l.speed).upload,
                     interfaces |-> unwrap(l.interfaces)]]]

\* Lines 204-228: the response built from the handler's locals.
StatusResponse(l, temps) ==
    [status |-> 200,
     body |->
       [server_status |-> "online",
        server_uptime |-> unwrap(l.sys).uptime,
        server_data |-> [server_name |-> unwrap(l.sys).server_name,
                         server_cpu |-> unwrap(l.sys).cpu_name,
                         server_os |-> unwrap(l.sys).server_os],
        data |-> [cpu_percentage |-> unwrap(l.sys).cpu_percentage,
                  memory |-> unwrap(l.sys).used_memory,
                  total_memory |-> unwrap(l.sys).total_memory,
                  memory_percentage |-> unwrap(l.sys).memory_percentage,
                  temps |-> temps],
        network |-> [public_ip |-> unwrap(l.public_ip),
                     ping_ms |-> unwrap(l.ping_ms),
                     speed_download_mbps |-> unwrap(l.speed).download,
                     speed_upload_mbps |-> unwrap(l.speed).upload,
                     interfaces |-> unwrap(l.interfaces)]]]

\* Line 233.
Unauthorized == [status |-> 401, body |-> "Unauthorized"]

\* What the external calls of a request in the handler specification return.
HandlerIpOutcomes == { IpErr("transport"), IpOk(Some("203.0.113.7")) }
HandlerPingOutcomes ==
    { SpawnErr, Ran(0, <<"64 bytes from 8.8.8.8: icmp_seq=1 ttl=55 time=13.4 ms">>), Hang }
HandlerSpeedOutcomes ==
    { SpawnErr, Ran(0, <<"Download: 93.12 Mbit/s", "Upload: 20.5 Mbit/s">>), Hang }
HandlerSensorOutcomes ==
    { SpawnErr, Ran(0, <<"k10temp-pci-00c3", "temp1:       +45.0^C">>), Hang }

\* What each probe returns for each outcome a handler can meet.
ping_of == Tabulated([o \in HandlerPingOutcomes \ {Hang} |-> get_ping_ms(o)])
speed_of == Tabulated([o \in HandlerSpeedOutcomes \ {Hang} |-> speed_fields(get_speedtest(o))])
temps_of == Tabulated([o \in HandlerSensorOutcomes \ {Hang} |-> get_all_temps(o)])

\* The request arrives and the handler checks its header (162-185, 233).
Status_Auth(r, h) ==
    /\ pc[r] = "idle"
    /\ hdr' = [hdr EXCEPT ![r] = h]
    /\ IF authorized(h, token)
       THEN /\ loc' = [loc EXCEPT ![r].sys = Some(sys_locals(HostSnapshot))]
            /\ pc' = [pc EXCEPT ![r] = "public_ip"]
            /\ UNCHANGED resp
       ELSE /\ resp' = [resp EXCEPT ![r] = Unauthorized]
            /\ pc' = [pc EXCEPT ![r] = "done"]
            /\ UNCHANGED loc
    /\ UNCHANGED env
    /\ UNCHANGED <<token, probe_vars>>

\* Lines 187-191.
Status_PublicIp(r, o) ==
    /\ pc[r] = "public_ip"
    /\ env' = [env EXCEPT ![r].ip = o]
    /\ loc' = [loc EXCEPT ![r].public_ip = Some(public_ip(o))]
    /\ pc' = [pc EXCEPT ![r] = "ping"]
    /\ UNCHANGED <<token, hdr, resp, probe_vars>>

\* A variant in which the ping result is kept in state shared by all handlers.
Status_Ping_shared(r, o) ==
    /\ pc[r] = "ping" /\ env[r].ping = NotRun
    /\ env' = [env EXCEPT ![r].ping = o]
    /\ IF o = Hang
       THEN UNCHANGED <<loc, pc>>
       ELSE /\ loc' = [q \in Requests |->
                         IF q = r \/ loc[q].ping_ms # None
                         THEN [loc[q] EXCEPT !.ping_ms = Some(ping_of[o])]
                         ELSE loc[q]]
            /\ pc' = [pc EXCEPT ![r] = "speedtest"]
    /\ UNCHANGED <<token, hdr, resp, probe_vars>>

\* Line 193.  A ping that never terminates leaves the handler inside output().
Status_Ping(r, o) ==
    /\ pc[r] = "ping" /\ env[r].ping = NotRun
    /\ env' = [env EXCEPT ![r].ping = o]
    /\ IF o = Hang
       THEN UNCHANGED <<loc, pc>>
       ELSE /\ loc' = [loc EXCEPT ![r].ping_ms = Some(ping_of[o])]
            /\ pc' = [pc EXCEPT ![r] = "speedtest"]
    /\ UNCHANGED <<token, hdr, resp, probe_vars>>

\* Lines 195-198.
Status_Speedtest(r, o) ==
    /\ pc[r] = "speedtest" /\ env[r].speed = NotRun
    /\ env' = [env EXCEPT ![r].speed = o]
    /\ IF o = Hang
       THEN UNCHANGED <<loc, pc>>
       ELSE /\ loc' = [loc EXCEPT ![r].speed = Some(speed_of[o])]
            /\ pc' = [pc EXCEPT ![r] = "interfaces"]
    /\ UNCHANGED <<token, hdr, resp, probe_vars>>

\* Line 200.
Status_Interfaces(r) ==
    /\ pc[r] = "interfaces"
    /\ env' = [env EXCEPT ![r].ifaces = Some(HostInterfaces)]
    /\ loc' = [loc EXCEPT ![r].interfaces = Some(get_network_interfaces(HostInterfaces))]
    /\ pc' = [pc EXCEPT ![r] = "sensors"]
    /\ UNCHANGED <<token, hdr, resp, probe_vars>>

\* Lines 202-228: the sensors call, then the response is built and sent.
Status_Respond(r, o) ==
    /\ pc[r] = "sensors" /\ env[r].sensors = NotRun
    /\ env' = [env EXCEPT ![r].sensors = o]
    /\ IF o = Hang
       THEN UNCHANGED <<resp, pc>>
       ELSE /\ resp' = [resp EXCEPT ![r] = StatusResponse(loc[r], temps_of[o])]
            /\ pc' = [pc EXCEPT ![r] = "done"]
    /\ UNCHANGED <<token, hdr, loc, probe_vars>>

\* Every step the handler of request r can take.
HandlerStep(r) ==
    \/ \E h \in Headers : Status_Auth(r, h)
    \/ \E o \in HandlerIpOutcomes : Status_PublicIp(r, o)
    \/ \E o \in HandlerPingOutcomes : Status_Ping(r, o)
    \/ \E o \in HandlerSpeedOutcomes : Status_Speedtest(r, o)
    \/ Status_Interfaces(r)
    \/ \E o \in HandlerSensorOutcomes : Status_Respond(r, o)

\* main, lines 237-253: the token is read once, before the server starts.
Init ==
    /\ token \in Tokens
    /\ HandlerIdle
    /\ probe = "none" /\ tool = NotRun /\ result = None

Next == \E r \in Requests : HandlerStep(r)

Spec == Init /\ [][Next]_vars

(***************************************************************************)
(* Properties of the handler (specification Spec).                         *)
(***************************************************************************)
Done(r) == pc[r] = "done"
Arrived(r) == pc[r] # "idle"
CorrectHeader(r) == hdr[r].kind = "text" /\ hdr[r].text = "Bearer " \o token
TopLevelKeys == {"server_status", "server_uptime", "server_data", "data", "network"}
NoTemps == [motherboard_temp |-> None, cpu_temp |-> None, gpu_temp |-> None]

\* C1: a request whose Authorization header is missing, is not valid text or
\* is not exactly "Bearer " followed by the configured token is answered 401
\* with body "Unauthorized", without any probe having run for it, whatever
\* the other requests and the tools are doing.
C1_BadHeaderIs401 ==
    \A r \in Requests :
        (Arrived(r) /\ ~CorrectHeader(r)) =>
            /\ Done(r)
            /\ resp[r].status = 401
            /\ resp[r].body = "Unauthorized"
            /\ env[r] = NoEnv

C1_Witness ==
    \E r, q \in Requests :
        /\ token = "s3cret"
        /\ hdr[r] = Header("Bearer s3cret ")
        /\ resp[r].status = 401
        /\ pc[q] = "speedtest"

\* C2: a request with the correct bearer token that is answered is answered
\* 200 with exactly the five top-level keys, whichever of its tools failed;
\* a missing tool only makes its own fields absent, and no response is 5xx.
C2_AuthorizedIs200 ==
    \A r \in Requests :
        /\ resp[r].status \in {0, 200, 401}
        /\ (Done(r) /\ CorrectHeader(r)) =>
              /\ resp[r].status = 200
              /\ DOMAIN resp[r].body = TopLevelKeys
              /\ resp[r].body.server_status = "online"
              /\ (env[r].ping = SpawnErr => resp[r].body.network.ping_ms = None)
              /\ (env[r].speed = SpawnErr =>
                     /\ resp[r].body.network.speed_download_mbps = None
                     /\ resp[r].body.network.speed_upload_mbps = None)
              /\ (env[r].sensors = SpawnErr => resp[r].body.data.temps = NoTemps)

C2_Witness ==
    \E r \in Requests :
        /\ env[r].ping = SpawnErr
        /\ env[r].speed = SpawnErr
        /\ env[r].sensors = SpawnErr
        /\ env[r].ip = IpErr("transport")
        /\ resp[r].status = 200

\* C4 (as claimed): every external call is bounded by a timeout, so a handler
\* that has started on an authorised request and has not answered yet can
\* always take its next step, even when a tool never terminates.
C4_Claimed_EveryCallReturns ==
    \A r \in Requests : (Arrived(r) /\ ~Done(r)) => ENABLED HandlerStep(r)

\* The response a finished authorised request must carry when it is built
\* from nothing but the results of its own external calls.
OwnResponse(r) ==
    StatusResponse(
        [sys |-> Some(sys_locals(HostSnapshot)),
         public_ip |-> Some(public_ip(env[r].ip)),
         ping_ms |-> Some(ping_of[env[r].ping]),
         speed |-> Some(speed_of[env[r].speed]),
         interfaces |-> Some(get_network_interfaces(unwrap(env[r].ifaces)))],
        temps_of[env[r].sensors])

RanAll(r) ==
    /\ env[r].ip.call # "not run"
    /\ env[r].ping.spawn \in {"ok", "err"}
    /\ env[r].speed.spawn \in {"ok", "err"}
    /\ env[r].sensors.spawn \in {"ok", "err"}
    /\ env[r].ifaces # None

C9_OwnResults ==
    \A r \in Requests :
        Done(r) =>
            IF CorrectHeader(r)
            THEN RanAll(r) /\ resp[r].status = 200 /\ resp[r] = OwnResponse(r)
            ELSE resp[r].status = 401 /\ env[r] = NoEnv

\* C9: under every interleaving each finished request was decided by its own
\* Authorization header, each authorised one ran every probe itself and its
\* response is built from the results of its own calls only, and the
\* configured token never changes after startup.
C9_RequestsIndependent == [](C9_OwnResults) /\ [][token' = token]_vars

C9_Witness ==
    \E r, q \in Requests :
        /\ Done(r) /\ Done(q)
        /\ resp[r].status = 200 /\ resp[q].status = 200
        /\ env[r].ping = SpawnErr /\ env[q].ping # SpawnErr
        /\ resp[r].body.network.ping_ms = None
        /\ resp[q].body.network.ping_ms # None

(***************************************************************************)
(* Properties of the probes (specification SpecProbes).  What a line means *)
(* is tabulated once per line of the tool's vocabulary.                    *)
(***************************************************************************)
Returned(name) == probe = name /\ result # None
Min(S) == CHOOSE x \in S : \A y \in S : x <= y
Last(S) == CHOOSE x \in S : \A y \in S : y <= x

\* The second whitespace-separated token of the line parses as a number.
SecondTokenIsNumber(line) ==
    LET w == split_whitespace(line)
    IN  Len(w) >= 2 /\ parse_float(w[2]) # None

DownloadLines ==
    { l \in SpeedLines : starts_with(l, "Download:") /\ SecondTokenIsNumber(l) }
UploadLines ==
    { l \in SpeedLines : starts_with(l, "Upload:") /\ SecondTokenIsNumber(l) }

\* C3: speed_download_mbps and speed_upload_mbps are both present or both
\* absent, and they are present only when the tool ran and its output has a
\* line starting with "Download:" and a line starting with "Upload:" whose
\* second tokens both parse as numbers.
C3_JointOrNeither ==
    Returned("speed") =>
        LET f == speed_fields(unwrap(result))
        IN  /\ is_some(f.download) <=> is_some(f.upload)
            /\ is_some(f.download) =>
                  /\ tool.spawn = "ok"
                  /\ \E i \in 1..Len(tool.stdout) : tool.stdout[i] \in DownloadLines
                  /\ \E i \in 1..Len(tool.stdout) : tool.stdout[i] \in UploadLines
            /\ (tool.spawn = "ok" /\ tool.stdout = <<"Download: 93.12 Mbit/s">>) =>
                  f = [download |-> None, upload |-> None]

C3_Witness ==
    /\ Returned("speed")
    /\ tool.spawn = "ok"
    /\ tool.stdout = <<"Download: 93.12 Mbit/s", "Upload: n/a">>
    /\ speed_fields(unwrap(result)) = [download |-> None, upload |-> None]

\* The text after the first "time=" of the line, up to the next space.
AfterTimeEq(line) ==
    LET k    == find(line, "time=")
        rest == SubSeq(line, k + 5, Len(line))
        sp   == find(rest, " ")
    IN  IF sp = 0 THEN rest ELSE SubSeq(rest, 1, sp - 1)

\* The text after the first "time=" of the line, up to the next space or the
\* next "time=", whichever comes first.
AfterTimeEqToNext(line) ==
    LET text == AfterTimeEq(line)
        nx   == find(text, "time=")
    IN  IF nx = 0 THEN text ELSE SubSeq(text, 1, nx - 1)

TimeLines == { l \in PingLines : contains(l, "time=") }
NumberUpToSpace == Tabulated([l \in TimeLines |-> parse_float(AfterTimeEq(l))])
NumberUpToNext == Tabulated([l \in TimeLines |-> parse_float(AfterTimeEqToNext(l))])

\* The first line of the ping output that contains "time=", if any.
FirstTimeLine ==
    LET is == { i \in 1..Len(tool.stdout) : tool.stdout[i] \in TimeLines }
    IN  IF tool.spawn # "ok" \/ is = {} THEN None ELSE Some(tool.stdout[Min(is)])

\* C7 (as claimed): ping_ms is the number after "time=", up to the next
\* space, on the first line of the output that contains "time="; it is absent
\* when the tool is missing, no line contains "time=" or that text is not a
\* number, whatever the later lines say.
C7_Claimed_UpToNextSpace ==
    Returned("ping") =>
        unwrap(result) =
            IF FirstTimeLine = None THEN None
            ELSE NumberUpToSpace[unwrap(FirstTimeLine)]

\* C7 (amended): ping_ms is the number after the first "time=", up to the
\* next space or the next "time=", on the first line of the output that
\* contains "time="; it is absent when the tool is missing, no line contains
\* "time=" or that text is not a number, whatever the later lines say.
C7_FirstTimeLine ==
    Returned("ping") =>
        /\ unwrap(result) =
              IF FirstTimeLine = None THEN None
              ELSE NumberUpToNext[unwrap(FirstTimeLine)]
        /\ (tool.spawn = "ok" /\ tool.stdout =
               <<"64 bytes from 8.8.8.8: icmp_seq=1 ttl=55 time=13.4 ms">>) =>
              unwrap(result) = Some([m |-> 134, e |-> 1])

C7_Witness ==
    /\ Returned("ping")
    /\ tool.spawn = "ok"
    /\ tool.stdout = <<"64 bytes from 8.8.8.8: icmp_seq=1 ttl=55 time=<1 ms",
                       "64 bytes from 8.8.8.8: icmp_seq=1 ttl=55 time=13.4 ms">>
    /\ unwrap(result) = None

\* C8: public_ip is a string in every case: the body the service returned
\* when the GET succeeded and the body could be read, and exactly
\* "Unavailable" on a transport error, an error status, a timeout or an
\* unreadable body.
C8_PublicIpSentinel ==
    Returned("ip") =>
        /\ unwrap(result) \in STRING
        /\ unwrap(result) =
              IF tool.call = "ok" /\ tool.body # None
              THEN tool.body[1]
              ELSE "Unavailable"

C8_Witness ==
    /\ Returned("ip")
    /\ tool = IpOk(None)
    /\ unwrap(result) = "Unavailable"

(***************************************************************************)
(* The thermal probe.                                                      *)
(***************************************************************************)
Fields == {"motherboard_temp", "cpu_temp", "gpu_temp"}
SensorText == IF tool.spawn = "ok" THEN tool.stdout ELSE <<>>

\* A header as the specification words it: no leading whitespace, no colon.
WordedHeader(line) ==
    /\ ~(line # "" /\ is_whitespace(Head(line)))
    /\ ~contains(line, ":")

\* A header as amended: not empty, not starting with a space, no colon.
NonEmptyHeader(line) ==
    /\ line # ""
    /\ Head(line) # " "
    /\ ~contains(line, ":")

WordedHeaders == Tabulated([l \in SensorLines |-> WordedHeader(l)])
NonEmptyHeaders == Tabulated([l \in SensorLines |-> NonEmptyHeader(l)])

\* The chip line i is read under: the latest header at or before i.
ChipAt(lines, i, headers) ==
    LET hs == { j \in 1..i : headers[lines[j]] }
    IN  IF hs = {} THEN None ELSE Some(lines[Last(hs)])

\* Field f is read from this line under this chip (case-insensitive).
FieldMatches(f, chip, line) ==
    LET c == to_lowercase(chip)
        l == to_lowercase(line)
    IN  CASE f = "motherboard_temp" ->
                (contains(c, "asus") \/ contains(c, "acpitz")) /\ contains(l, "temp1:")
          [] f = "cpu_temp" -> contains(c, "k10temp") /\ contains(l, "temp1:")
          [] f = "gpu_temp" -> contains(c, "amdgpu") /\ contains(l, "edge:")

Matching ==
    Tabulated([fcl \in Fields \X SensorLines \X SensorLines |->
                  FieldMatches(fcl[1], fcl[2], fcl[3])])

\* The reading of a line: its first word with the degree marker, as a number.
DegreeReading(line) ==
    LET w  == split_whitespace(line)
        ks == { k \in 1..Len(w) : contains(w[k], "^C") }
    IN  IF ks = {} THEN None
        ELSE parse_float(trim_matches(w[Min(ks)], {"+", "^", "C"}))

Reading == Tabulated([l \in SensorLines |-> DegreeReading(l)])

\* Every reading comes from a line with the field's label under a chip with
\* the field's marker, and "temp1:       +45.0^C" as the last line, under a
\* k10temp chip, gives cpu_temp = 45.0.
ReadUnderMatchingChip(headers) ==
    LET lines == SensorText
        t     == unwrap(result)
        n     == Len(lines)
        chip  == [i \in 1..n |-> ChipAt(lines, i, headers)]
    IN  /\ \A f \in Fields :
              is_some(t[f]) =>
                 \E i \in 1..n :
                    /\ chip[i] # None
                    /\ Matching[<<f, unwrap(chip[i]), lines[i]>>]
                    /\ t[f] = Reading[lines[i]]
        /\ ( /\ n >= 1
             /\ lines[n] = "temp1:       +45.0^C"
             /\ chip[n] # None
             /\ Matching[<<"cpu_temp", unwrap(chip[n]), lines[n]>>]
             /\ ~Matching[<<"motherboard_temp", unwrap(chip[n]), lines[n]>>] )
           => t.cpu_temp = Some([m |-> 45, e |-> 0])

\* C5 (as claimed): a line with no leading whitespace and no colon starts a
\* chip section that lasts until the next such line; a reading is taken only
\* from a labelled line under the matching chip, so a "temp1:" or "edge:"
\* line before any header or under a chip without the marker sets no field.
C5_Claimed_AnyUnindentedLine ==
    Returned("sensors") => ReadUnderMatchingChip(WordedHeaders)

\* C5 (amended): a non-empty line that does not start with a space character
\* and has no colon starts a chip section that lasts until the next such
\* line; a reading is taken only from a labelled line under the matching
\* chip, and "temp1:       +45.0^C" under a k10temp chip gives cpu_temp 45.0.
C5_ChipSections ==
    Returned("sensors") => ReadUnderMatchingChip(NonEmptyHeaders)

C5_Witness ==
    /\ Returned("sensors")
    /\ tool.spawn = "ok"
    /\ tool.stdout = <<"k10temp-pci-00c3", "", "temp1:       +45.0^C">>
    /\ unwrap(result).cpu_temp = Some([m |-> 45, e |-> 0])

\* The first rule, in the order motherboard, CPU, GPU, that applies to a line.
FirstRule(chip, line) ==
    IF FieldMatches("motherboard_temp", chip, line) THEN "motherboard_temp"
    ELSE IF FieldMatches("cpu_temp", chip, line) THEN "cpu_temp"
    ELSE IF FieldMatches("gpu_temp", chip, line) THEN "gpu_temp"
    ELSE "none"

FirstRuleOf ==
    Tabulated([cl \in SensorLines \X SensorLines |-> FirstRule(cl[1], cl[2])])

\* The field each line sets: that of the first rule applying to it under its
\* chip, "none" before any chip or when no rule applies.
RuleOf(lines) ==
    [i \in 1..Len(lines) |->
        LET chip == ChipAt(lines, i, NonEmptyHeaders)
        IN  IF chip = None THEN "none" ELSE FirstRuleOf[<<unwrap(chip), lines[i]>>]]

\* C10: each temperature field is the reading of the LAST line that sets it
\* (absent when that line's first degree token is no number or it has none,
\* whatever an earlier line gave), and a line sets only the field of the
\* first rule, in the order motherboard, CPU, GPU, that applies to it.
C10_LastMatchWins ==
    Returned("sensors") =>
        LET lines == SensorText
            rule  == RuleOf(lines)
        IN  \A f \in Fields :
                LET set == { i \in 1..Len(lines) : rule[i] = f }
                IN  unwrap(result)[f] =
                        IF set = {} THEN None ELSE Reading[lines[Last(set)]]

C10_Witness ==
    /\ Returned("sensors")
    /\ tool.spawn = "ok"
    /\ tool.stdout = <<"asus-k10temp-amdgpu", "temp1:       +45.0^C", "temp1: N/A">>
    /\ unwrap(result) = NoTemps

\* The line with its value replaced by an unreadable one.
Unreadable(line) ==
    IF contains(line, ":")
    THEN SubSeq(line, 1, find(line, ":")) \o " N/A"
    ELSE line

\* Making one line unreadable changes at most one field, which becomes absent.
OneFieldAffected ==
    \A i \in 1..Len(SensorText) :
        LET broken == [SensorText EXCEPT ![i] = Unreadable(SensorText[i])]
            t2     == get_all_temps(Ran(tool.code, broken))
            diff   == { f \in Fields : t2[f] # unwrap(result)[f] }
        IN  /\ Cardinality(diff) <= 1
            /\ \A f \in diff : t2[f] = None

\* The claim without the exit status: the probe always returns its three
\* fields, a missing binary leaves all three absent, an unreadable line
\* affects one field only.
SensorsFailSoft ==
    Returned("sensors") =>
        /\ DOMAIN unwrap(result) = Fields
        /\ (tool.spawn = "err" => unwrap(result) = NoTemps)
        /\ OneFieldAffected

\* C6 (as claimed): the probe never returns an error; a missing binary or a
\* non-zero exit of the sensors command yields absent readings; an
\* unparseable line or absent marker makes only its own field absent and
\* leaves the other two as they were.
C6_Claimed_FailureIsAbsent ==
    Returned("sensors") =>
        /\ DOMAIN unwrap(result) = Fields
        /\ ((tool.spawn = "err" \/ tool.code # 0) => unwrap(result) = NoTemps)
        /\ OneFieldAffected

====
